---- MODULE Spec2Model ----
(***************************************************************************)
(* Donation / registration lifecycle of the tulip-foundation application:  *)
(* the donation submission flow (DonationForm.tsx, onSubmit), the admin    *)
(* reconciliation dashboard (Dashboard component) and the pure helpers     *)
(* they use.  The Payment Gateway and the Record Store are collaborators:  *)
(* their answers are inputs chosen with \E, their state is what the        *)
(* program's calls have made of it.                                        *)
(***************************************************************************)
EXTENDS Integers, Sequences, FiniteSets, TLC

VARIABLES
    \* ---- donation submission flow ----
    stripe,               \* useStripe() has delivered the library
    elements,             \* useElements() has delivered the elements object
    isProcessingPayment,  \* the in-flight flag of the form
    view,                 \* "form" or "success" (the route shown)
    navState,             \* the state handed to navigate(), or NoNav
    runs,                 \* the onSubmit invocations, in call order
    events,               \* calls made to the notifier, the gateway, the store, the router
    nIntents,             \* gateway: payment intents created so far
    charged,              \* gateway: references of the confirmed payments
    formDonations,        \* Record Store: rows inserted into donations
    \* ---- updatePaymentStatus: the patch it computes ----
    txIn,                 \* the call: status and the value Math.random() returns
    txOut,                \* updateData, or NoPatch before the call
    \* ---- calculateStats ----
    statsRegs,            \* regs: the registration list handed to calculateStats
    statsDons,            \* dons: the donation list handed to calculateStats
    statsOut,             \* statsData
    statsCalled,          \* calculateStats has run
    \* ---- admin dashboard: Record Store and sessions ----
    dbRegistrations,      \* Record Store: table registrations, created_at descending
    dbDonations,          \* Record Store: table donations, created_at descending
    registrations,        \* per session: useState<Registration[]>
    donations,            \* per session: useState<Donation[]>
    isLoading,            \* per session
    statsData,            \* per session
    calls,                \* the handler and fetchData invocations in flight
    clicks,               \* the clicks on mutation buttons so far
    lastStep,             \* the step just taken
    certified,            \* per session: the donations whose sendCertificate succeeded
    \* ---- dashboard filtering ----
    filterIn,             \* the list, searchTerm and status filter of one render
    filterOut,            \* the filtered lists computed from them
    \* ---- CSV serialisation ----
    csvIn,                \* the field values of one row
    csvOut,               \* the line written for them
    \* ---- export ----
    exportIn,             \* the list, searchTerm and status filter when Export is clicked
    exportOut,            \* the file handed to the browser
    \* ---- mail relay ----
    requests              \* the POST /send-volunteer-application requests, in arrival order

formVars == <<stripe, elements, isProcessingPayment, view, navState, runs,
              events, nIntents, charged, formDonations>>

txVars == <<txIn, txOut>>

statsVars == <<statsRegs, statsDons, statsOut, statsCalled>>

dashVars == <<dbRegistrations, dbDonations, registrations, donations, isLoading,
              statsData, calls, clicks, lastStep, certified>>

filterVars == <<filterIn, filterOut>>

\* The helpers of the dashboard: each one is exercised on inputs of its own.
csvVars == <<csvIn, csvOut>>

exportVars == <<exportIn, exportOut>>

mailVars == <<requests>>

helperVars == <<filterVars, csvVars, exportVars, mailVars>>

\* What the dashboard never touches.
notDashVars == <<stripe, elements, isProcessingPayment, view, navState, runs, events,
                 nIntents, charged, formDonations, txIn, txOut,
                 statsRegs, statsDons, statsOut, statsCalled, helperVars>>

\* What the donation form never touches.
notFormVars == <<txIn, txOut, statsRegs, statsDons, statsOut, statsCalled,
                 dbRegistrations, dbDonations, registrations, donations, isLoading,
                 statsData, calls, clicks, lastStep, certified, helperVars>>

vars == <<formVars, txVars, statsVars, dashVars, helperVars>>

(***************************************************************************)
(* Bounds of the donation flow.                                            *)
(***************************************************************************)
MaxSubmits == 3

Amounts == {25, 100}
Designations == {"Where Needed Most", ""}

\* The values handleSubmit passes to onSubmit: they satisfy formSchema.
FormInputs ==
    [firstName : {"Ann"}, lastName : {"Lee"}, email : {"ann@x.org"},
     amount : Amounts, designation : Designations, isAnonymous : BOOLEAN]

NoNav == [kind |-> "none"]
NoCall == [status |-> "none"]
NoPatch == [payment_status |-> "none"]

\* data.designation || 'General'
DesignationOrGeneral(d) == IF d = "" THEN "General" ELSE d

\* Mutant of DonationRow: the row is written as pending, without the reference.
DonationRowPending(data, paymentIntentId) ==
    [first_name    |-> data.firstName,
     last_name     |-> data.lastName,
     email         |-> data.email,
     amount        |-> data.amount,
     designation   |-> data.designation,
     is_anonymous  |-> data.isAnonymous,
     payment_id    |-> 0,
     donation_type |-> "Website Donation",
     status        |-> "pending"]

\* The record handed to supabase.from('donations').insert(...)
DonationRow(data, paymentIntentId) ==
    [first_name    |-> data.firstName,
     last_name     |-> data.lastName,
     email         |-> data.email,
     amount        |-> data.amount,
     designation   |-> data.designation,
     is_anonymous  |-> data.isAnonymous,
     payment_id    |-> paymentIntentId,
     donation_type |-> "Website Donation",
     status        |-> "completed"]

\* The state handed to navigate('/donation-success', ...)
SuccessState(data, paymentIntentId) ==
    [kind          |-> "donation-success",
     name          |-> <<data.firstName, data.lastName>>,
     email         |-> data.email,
     amount        |-> data.amount,
     designation   |-> data.designation,
     isAnonymous   |-> data.isAnonymous,
     transactionId |-> paymentIntentId]

\* Mutant of SubmitDisabled: the button ignores the in-flight flag.
SubmitDisabledIgnoresFlag == ~stripe

\* disabled={isProcessingPayment || !stripe} of the submit button
SubmitDisabled == isProcessingPayment \/ ~stripe

Ev(kind, run, arg) == [kind |-> kind, run |-> run, arg |-> arg]

InitForm ==
    /\ stripe = FALSE
    /\ elements = FALSE
    /\ isProcessingPayment = FALSE
    /\ view = "form"
    /\ navState = NoNav
    /\ runs = <<>>
    /\ events = <<>>
    /\ nIntents = 0
    /\ charged = {}
    /\ formDonations = <<>>

\* useStripe() turns non-null once the payment library has loaded.
StripeLoads ==
    /\ ~stripe
    /\ stripe' = TRUE
    /\ UNCHANGED <<elements, isProcessingPayment, view, navState, runs, events,
                   nIntents, charged, formDonations, notFormVars>>

\* useElements() turns non-null.
ElementsLoad ==
    /\ ~elements
    /\ elements' = TRUE
    /\ UNCHANGED <<stripe, isProcessingPayment, view, navState, runs, events,
                   nIntents, charged, formDonations, notFormVars>>

\* onSubmit, lines 70-73: the library is not initialised.
SubmitUninitialized ==
    /\ view = "form"
    /\ ~SubmitDisabled
    /\ Len(runs) < MaxSubmits
    /\ ~stripe \/ ~elements
    /\ \E data \in FormInputs :
         runs' = Append(runs, [data |-> data, pc |-> "done", failure |-> "uninitialized",
                               clientSecret |-> 0, ref |-> 0, dbError |-> FALSE])
    /\ events' = Append(events, Ev("toast.error", Len(runs) + 1, "Stripe has not been initialized"))
    /\ UNCHANGED <<stripe, elements, isProcessingPayment, view, navState,
                   nIntents, charged, formDonations, notFormVars>>

\* onSubmit, lines 75-82: set the flag, request the payment intent.
Submit ==
    /\ view = "form"
    /\ ~SubmitDisabled
    /\ Len(runs) < MaxSubmits
    /\ stripe /\ elements
    /\ isProcessingPayment' = TRUE
    /\ \E data \in FormInputs :
         /\ runs' = Append(runs, [data |-> data, pc |-> "intent", failure |-> "none",
                                  clientSecret |-> 0, ref |-> 0, dbError |-> FALSE])
         /\ events' = Append(events, Ev("createPaymentIntent", Len(runs) + 1,
                                         <<data.amount * 100, DesignationOrGeneral(data.designation)>>))
    /\ UNCHANGED <<stripe, elements, view, navState, nIntents, charged, formDonations, notFormVars>>

\* Mutant of Abort: the catch block runs, the finally block does not.
AbortKeepsFlag(r, why) ==
    /\ runs' = [runs EXCEPT ![r].pc = "done", ![r].failure = why]
    /\ events' = Append(events, Ev("toast.error", r, "Payment failed"))
    /\ isProcessingPayment' = isProcessingPayment

\* catch + finally of onSubmit, lines 156-163.  why: what was thrown.
Abort(r, why) ==
    /\ runs' = [runs EXCEPT ![r].pc = "done", ![r].failure = why]
    /\ events' = Append(events, Ev("toast.error", r, "Payment failed"))
    /\ isProcessingPayment' = FALSE

\* createPaymentIntent rejects.
IntentFails ==
    \E r \in 1..Len(runs) :
        /\ runs[r].pc = "intent"
        /\ Abort(r, "intent")
        /\ UNCHANGED <<stripe, elements, view, navState, nIntents, charged, formDonations, notFormVars>>

\* createPaymentIntent resolves, elements.getElement(CardElement) is null (lines 84-88).
CardMissing ==
    \E r \in 1..Len(runs) :
        /\ runs[r].pc = "intent"
        /\ nIntents' = nIntents + 1
        /\ Abort(r, "card")
        /\ UNCHANGED <<stripe, elements, view, navState, charged, formDonations, notFormVars>>

\* Mutant of IntentCreated: the donation is saved before the payment is confirmed.
IntentCreatedSavesFirst ==
    \E r \in 1..Len(runs) :
        /\ runs[r].pc = "intent"
        /\ nIntents' = nIntents + 1
        /\ runs' = [runs EXCEPT ![r].pc = "confirm", ![r].clientSecret = nIntents + 1]
        /\ events' = events \o <<Ev("insert", r, DonationRow(runs[r].data, nIntents + 1)),
                                 Ev("confirmCardPayment", r, nIntents + 1)>>
        /\ UNCHANGED <<stripe, elements, isProcessingPayment, view, navState, charged, formDonations, notFormVars>>

\* createPaymentIntent resolves with a client secret; confirmCardPayment is called (lines 84-110).
IntentCreated ==
    \E r \in 1..Len(runs) :
        /\ runs[r].pc = "intent"
        /\ nIntents' = nIntents + 1
        /\ runs' = [runs EXCEPT ![r].pc = "confirm", ![r].clientSecret = nIntents + 1]
        /\ events' = Append(events, Ev("confirmCardPayment", r, nIntents + 1))
        /\ UNCHANGED <<stripe, elements, isProcessingPayment, view, navState, charged, formDonations, notFormVars>>

\* Mutant of ConfirmError: the donation is recorded before result.error is looked at.
ConfirmErrorRecorded ==
    \E r \in 1..Len(runs) :
        /\ runs[r].pc = "confirm"
        /\ Abort(r, "confirm")
        /\ formDonations' = Append(formDonations, DonationRow(runs[r].data, runs[r].clientSecret))
        /\ UNCHANGED <<stripe, elements, view, navState, nIntents, charged, notFormVars>>

\* confirmCardPayment answers {error} (lines 112-114).
ConfirmError ==
    \E r \in 1..Len(runs) :
        /\ runs[r].pc = "confirm"
        /\ Abort(r, "confirm")
        /\ UNCHANGED <<stripe, elements, view, navState, nIntents, charged, formDonations, notFormVars>>

\* confirmCardPayment answers {paymentIntent}; the insert is issued (lines 116-130).
ConfirmSucceeds ==
    \E r \in 1..Len(runs) :
        /\ runs[r].pc = "confirm"
        /\ charged' = charged \cup {runs[r].clientSecret}
        /\ runs' = [runs EXCEPT ![r].pc = "insert", ![r].ref = runs[r].clientSecret]
        /\ events' = Append(events, Ev("insert", r, DonationRow(runs[r].data, runs[r].clientSecret)))
        /\ UNCHANGED <<stripe, elements, isProcessingPayment, view, navState, nIntents, formDonations, notFormVars>>

\* The rest of the try block and finally, lines 132-154 and 161-163.
Finish(r, dbError) ==
    /\ runs' = [runs EXCEPT ![r].pc = "done", ![r].dbError = dbError]
    /\ events' = events \o <<Ev("toast.success", r, "Donation successful!"),
                             Ev("navigate", r, runs[r].ref)>>
    /\ view' = "success"
    /\ navState' = SuccessState(runs[r].data, runs[r].ref)
    /\ isProcessingPayment' = FALSE

\* The Record Store accepts the insert.
InsertSucceeds ==
    \E r \in 1..Len(runs) :
        /\ runs[r].pc = "insert"
        /\ formDonations' = Append(formDonations, DonationRow(runs[r].data, runs[r].ref))
        /\ Finish(r, FALSE)
        /\ UNCHANGED <<stripe, elements, nIntents, charged, notFormVars>>

\* Mutant of InsertFails: dbError is thrown into the catch block.
InsertFailsThrows ==
    \E r \in 1..Len(runs) :
        /\ runs[r].pc = "insert"
        /\ runs' = [runs EXCEPT ![r].pc = "done", ![r].dbError = TRUE]
        /\ events' = Append(events, Ev("toast.error", r, "Payment failed"))
        /\ isProcessingPayment' = FALSE
        /\ UNCHANGED <<stripe, elements, view, navState, nIntents, charged, formDonations, notFormVars>>

\* The Record Store rejects the insert: dbError is logged only.
InsertFails ==
    \E r \in 1..Len(runs) :
        /\ runs[r].pc = "insert"
        /\ Finish(r, TRUE)
        /\ UNCHANGED <<stripe, elements, nIntents, charged, formDonations, notFormVars>>

NextForm ==
    \/ StripeLoads
    \/ ElementsLoad
    \/ SubmitUninitialized
    \/ Submit
    \/ IntentFails
    \/ CardMissing
    \/ IntentCreated
    \/ ConfirmError
    \/ ConfirmSucceeds
    \/ InsertSucceeds
    \/ InsertFails


(***************************************************************************)
(* updatePaymentStatus: the patch (updateData) it computes.                *)
(*                                                                         *)
(* Strings are sequences of one-character strings.  Math.random() returns  *)
(* a binary fraction num / 2^bits in [0, 1); Number.prototype.toString(36) *)
(* writes "0" for zero and otherwise "0." followed by the digits of the    *)
(* base-36 expansion, which for a binary fraction of bits bits ends after  *)
(* ceil(bits / 2) digits.                                                  *)
(***************************************************************************)
RandomBits == 24

Null == <<>>

Digits36 ==
    <<"0", "1", "2", "3", "4", "5", "6", "7", "8", "9",
      "a", "b", "c", "d", "e", "f", "g", "h", "i", "j", "k", "l", "m",
      "n", "o", "p", "q", "r", "s", "t", "u", "v", "w", "x", "y", "z">>

RECURSIVE Pow2(_)
Pow2(n) == IF n = 0 THEN 1 ELSE 2 * Pow2(n - 1)

Min(a, b) == IF a < b THEN a ELSE b

\* The values Math.random() is drawn from: 0, and odd numerators over 2^bits.
RandomDraws ==
    {[num |-> 0, bits |-> 0]} \cup
    {d \in [num : {1, 3, 5, 7}, bits : 1..RandomBits] : d.num < Pow2(d.bits)} \cup
    {[num |-> Pow2(b) - 1, bits |-> b] : b \in 1..RandomBits}

\* The fractional digits of num / 2^bits in base 36, most significant first.
RECURSIVE FractionDigits(_, _)
FractionDigits(num, bits) ==
    IF num = 0 THEN <<>>
    ELSE <<Digits36[((num * 36) \div Pow2(bits)) + 1]>>
             \o FractionDigits((num * 36) % Pow2(bits), bits)

\* Math.random().toString(36)
ToString36(d) ==
    IF d.num = 0 THEN <<"0">> ELSE <<"0", ".">> \o FractionDigits(d.num, d.bits)

\* str.substring(start, end), 0-based, end exclusive, both clamped to the length
Substring(str, start, end) == SubSeq(str, Min(start, Len(str)) + 1, Min(end, Len(str)))

\* `tx_${Math.random().toString(36).substring(2, 11)}`
TransactionId(d) == <<"t", "x", "_">> \o Substring(ToString36(d), 2, 11)

\* A variant that generates a transaction id whatever the status.
PaymentUpdateDataAlwaysId(status, d, now) ==
    [payment_status |-> status,
     transaction_id |-> TransactionId(d),
     updated_at     |-> now]

\* updateData of handleUpdatePaymentStatus
PaymentUpdateData(status, d, now) ==
    [payment_status |-> status,
     transaction_id |-> IF status = "paid" THEN TransactionId(d) ELSE Null,
     updated_at     |-> now]

TxIdle == txIn = NoCall /\ txOut = NoPatch

InitTx ==
    /\ txIn \in [status : {"paid", "pending"}, random : RandomDraws]
    /\ txOut = NoPatch

\* handleUpdatePaymentStatus, lines 244-248.
ComputeUpdateData ==
    /\ txOut = NoPatch
    /\ txOut' = PaymentUpdateData(txIn.status, txIn.random, 1)
    /\ UNCHANGED <<txIn, formVars, statsVars, dashVars, helperVars>>

NextTx == ComputeUpdateData



(***************************************************************************)
(* calculateStats.                                                         *)
(***************************************************************************)
MaxRegs == 2
MaxDons == 2

\* The initial statsData (useState, lines 75-83).
ZeroStats ==
    [totalRegistrations |-> 0, totalParticipants |-> 0, totalPaid |-> 0,
     totalPending |-> 0, totalRevenue |-> 0, totalDonations |-> 0,
     totalDonationAmount |-> 0]

\* x || 0 on a number
OrZero(x) == IF x = 0 THEN 0 ELSE x

IsPaid(reg) == reg.payment_status = "paid"
IsPending(reg) == reg.payment_status = "pending"
IsCompleted(don) == don.status = "completed"

\* regs.reduce((sum, reg) => sum + (reg.adult_count || 0) + (reg.kids_count || 0), 0)
RECURSIVE ReduceParticipants(_, _)
ReduceParticipants(sum, regs) ==
    IF regs = <<>> THEN sum
    ELSE ReduceParticipants(sum + OrZero(Head(regs).adult_count) + OrZero(Head(regs).kids_count),
                            Tail(regs))

\* regs.reduce((sum, reg) => sum + (reg.total_amount || 0), 0)
RECURSIVE ReduceTotalAmount(_, _)
ReduceTotalAmount(sum, regs) ==
    IF regs = <<>> THEN sum
    ELSE ReduceTotalAmount(sum + OrZero(Head(regs).total_amount), Tail(regs))

\* dons.reduce((sum, don) => sum + (don.amount || 0), 0)
RECURSIVE ReduceAmount(_, _)
ReduceAmount(sum, dons) ==
    IF dons = <<>> THEN sum
    ELSE ReduceAmount(sum + OrZero(Head(dons).amount), Tail(dons))

\* Mutant of CalculateStats: the revenue and the donation amount are summed
\* without the status filters.
CalculateStatsUnfiltered(regs, dons) ==
    [totalRegistrations  |-> Len(regs),
     totalParticipants   |-> ReduceParticipants(0, regs),
     totalPaid           |-> Len(SelectSeq(regs, IsPaid)),
     totalPending        |-> Len(SelectSeq(regs, IsPending)),
     totalRevenue        |-> ReduceTotalAmount(0, regs),
     totalDonations      |-> Len(dons),
     totalDonationAmount |-> ReduceAmount(0, dons)]

\* calculateStats(regs, dons): the object it hands to setStatsData.
CalculateStats(regs, dons) ==
    [totalRegistrations  |-> Len(regs),
     totalParticipants   |-> ReduceParticipants(0, regs),
     totalPaid           |-> Len(SelectSeq(regs, IsPaid)),
     totalPending        |-> Len(SelectSeq(regs, IsPending)),
     totalRevenue        |-> ReduceTotalAmount(0, SelectSeq(regs, IsPaid)),
     totalDonations      |-> Len(dons),
     totalDonationAmount |-> ReduceAmount(0, SelectSeq(dons, IsCompleted))]

SeqsUpTo(S, n) == UNION {[1..k -> S] : k \in 0..n}

StatsRegRows ==
    [adult_count : {0, 2}, kids_count : {0, 1}, total_amount : {0, 150},
     payment_status : {"paid", "pending"}]

StatsDonRows == [amount : {0, 50}, status : {"completed", "pending"}]

StatsIdle ==
    statsRegs = <<>> /\ statsDons = <<>> /\ statsOut = ZeroStats /\ statsCalled = FALSE

InitStats ==
    /\ statsRegs \in SeqsUpTo(StatsRegRows, MaxRegs)
    /\ statsDons \in SeqsUpTo(StatsDonRows, MaxDons)
    /\ statsOut = ZeroStats
    /\ statsCalled = FALSE

\* One call calculateStats(statsRegs, statsDons).
CallCalculateStats ==
    /\ ~statsCalled
    /\ statsCalled' = TRUE
    /\ statsOut' = CalculateStats(statsRegs, statsDons)
    /\ UNCHANGED <<statsRegs, statsDons, formVars, txVars, dashVars, helperVars>>

NextStats == CallCalculateStats


(***************************************************************************)
(* Admin reconciliation dashboard.                                         *)
(*                                                                         *)
(* Every admin session is one mounted Dashboard component.  A handler runs *)
(* up to its await in the step that starts it and resumes in a later step, *)
(* when the Record Store answers; the store serves a request at the moment *)
(* its answer is consumed.  A handler reads the lists of the render in     *)
(* which it was created: the call keeps them as its closure.               *)
(***************************************************************************)
MaxClicks == 2

Sessions == {"admin1", "admin2"}

\* A transaction id a registration may carry before any session touches it.
SeedTx == <<"t", "x", "_", "s", "e", "e", "d">>

\* The values Math.random() takes in the dashboard runs: 1/2 and 8388607/2^23.
DashDraws == {[num |-> 1, bits |-> 1], [num |-> Pow2(23) - 1, bits |-> 23]}

Registration(id, name, email, category, adults, kids, total, status, tx) ==
    [id |-> id, name |-> name, email |-> email, family_category |-> category,
     adult_count |-> adults, kids_count |-> kids, total_amount |-> total,
     payment_status |-> status, transaction_id |-> tx, updated_at |-> 0]

Donation(id, first, last, email, amount, designation, status) ==
    [id |-> id, first_name |-> first, last_name |-> last, email |-> email,
     amount |-> amount, designation |-> designation, is_anonymous |-> FALSE,
     payment_id |-> id, donation_type |-> "Website Donation", status |-> status,
     certificate_sent |-> FALSE, updated_at |-> 0]

\* (payment_status, transaction_id) pairs a stored registration starts with.
InitialPaymentStates == {<<"pending", Null>>, <<"paid", Null>>, <<"paid", SeedTx>>}

NoData == <<>>
NoUpdate == [none |-> TRUE]
NoCause == [kind |-> "mount", n |-> 0, id |-> "", status |-> ""]

\* What a finished handler leaves to the fetchData() it starts: which call it was.
CauseOf(c) == [kind |-> c.kind, n |-> c.n, id |-> c.id, status |-> c.status]

\* A fetchData() invocation that awaits its first read.
FetchCall(s, cause) ==
    [sess |-> s, kind |-> "fetchData", n |-> cause.n, pc |-> "registrations",
     id |-> "", status |-> "", updateData |-> NoUpdate, closure |-> NoData,
     registrationsData |-> NoData, cause |-> cause]

\* A mutation handler invocation that awaits its update; n numbers the clicks.
HandlerCall(s, kind, n, id, status, updateData, closure) ==
    [sess |-> s, kind |-> kind, n |-> n, pc |-> "update", id |-> id, status |-> status,
     updateData |-> updateData, closure |-> closure, registrationsData |-> NoData,
     cause |-> NoCause]

\* The step just taken: the operation, the invocation it resumed or started,
\* and the toast it showed.
Step(op, c, toast) ==
    [op |-> op, call |-> [c EXCEPT !.closure = NoData, !.registrationsData = NoData],
     toast |-> toast]
NoStep == [op |-> "none"]

\* The Record Store before any session acts.
InitStore ==
    /\ \E p \in InitialPaymentStates :
          dbRegistrations =
              <<Registration("r1", <<"A", "n", "n">>, <<"a", "@", "x">>, <<"D", "u", "o">>,
                             2, 1, 150, p[1], p[2]),
                Registration("r2", <<"B", "o">>, <<"b", "@", "x">>, <<"S", "o", "l", "o">>,
                             1, 0, 80, "pending", Null)>>
    /\ dbDonations =
          <<Donation("d1", <<"A", "n", "n">>, <<"L", "e", "e">>, <<"a", "@", "x">>,
                     50, <<"C", "a", "m", "p">>, "completed"),
            Donation("d2", <<"C", "y">>, <<"P", "o", "e">>, <<"c", "@", "x">>,
                     20, <<"A", "n", "y">>, "pending")>>

\* The state of the components (useState, lines 65-83) before their effect runs.
InitSessions ==
    /\ registrations = [s \in Sessions |-> <<>>]
    /\ donations = [s \in Sessions |-> <<>>]
    /\ isLoading = [s \in Sessions |-> TRUE]
    /\ statsData = [s \in Sessions |-> ZeroStats]

\* One admin session: it has mounted and its effect has called fetchData()
\* (lines 149-153; checkTables and checkRLSPermissions only log).
InitDash ==
    /\ InitStore
    /\ InitSessions
    /\ calls = {FetchCall("admin1", NoCause)}
    /\ clicks = 0
    /\ lastStep = NoStep
    /\ certified = [s \in Sessions |-> {}]

\* Two admin sessions on the same Record Store, each one mounted and loaded.
InitAdmins ==
    /\ InitStore
    /\ registrations = [s \in Sessions |-> dbRegistrations]
    /\ donations = [s \in Sessions |-> dbDonations]
    /\ isLoading = [s \in Sessions |-> FALSE]
    /\ statsData = [s \in Sessions |-> CalculateStats(dbRegistrations, dbDonations)]
    /\ calls = {}
    /\ clicks = 0
    /\ lastStep = NoStep
    /\ certified = [s \in Sessions |-> {}]

DashIdle ==
    /\ dbRegistrations = <<>>
    /\ dbDonations = <<>>
    /\ InitSessions
    /\ calls = {}
    /\ clicks = 0
    /\ lastStep = NoStep
    /\ certified = [s \in Sessions |-> {}]

\* new Date().toISOString(): a clock that every click advances.
Now == clicks + 1

\* { ...row, ...patch }
MergePatch(row, patch) ==
    [f \in DOMAIN row |-> IF f \in DOMAIN patch THEN patch[f] ELSE row[f]]

\* A variant of PatchRows without the test of the id: every row is patched.
PatchRowsAll(list, id, patch) ==
    [i \in DOMAIN list |-> MergePatch(list[i], patch)]

\* list.map(row => row.id === id ? { ...row, ...patch } : row), and what
\* update(patch).eq('id', id) does to a table
PatchRows(list, id, patch) ==
    [i \in DOMAIN list |-> IF list[i].id = id THEN MergePatch(list[i], patch) ELSE list[i]]

Rows(list) == {list[i] : i \in DOMAIN list}

\* The rows the tables of a session show: none while isLoading (lines 537, 669).
ShownRegistrations(s) == IF isLoading[s] THEN {} ELSE Rows(registrations[s])
ShownDonations(s) == IF isLoading[s] THEN {} ELSE Rows(donations[s])

\* disabled={don.certificate_sent} of the Send Certificate button
CertificateDisabled(don) == don.certificate_sent

UpperCase == <<"A", "B", "C", "D", "E", "F", "G", "H", "I", "J", "K", "L", "M",
               "N", "O", "P", "Q", "R", "S", "T", "U", "V", "W", "X", "Y", "Z">>

\* String.prototype.toLowerCase on the characters the rows use
ToLowerCase(str) ==
    [i \in DOMAIN str |->
        IF \E k \in DOMAIN UpperCase : UpperCase[k] = str[i]
        THEN Digits36[10 + (CHOOSE k \in DOMAIN UpperCase : UpperCase[k] = str[i])]
        ELSE str[i]]

\* String.prototype.includes
Includes(str, sub) ==
    \E i \in 0..(Len(str) - Len(sub)) : SubSeq(str, i + 1, i + Len(sub)) = sub

\* filteredRegistrations, lines 391-398, as the set of rows the table lists
FilteredRegistrations(list, searchTerm, registrationFilter) ==
    {reg \in Rows(list) :
        LET matchesSearch ==
                \/ Includes(ToLowerCase(reg.name), ToLowerCase(searchTerm))
                \/ Includes(ToLowerCase(reg.email), ToLowerCase(searchTerm))
                \/ Includes(ToLowerCase(reg.family_category), ToLowerCase(searchTerm))
        IN  IF registrationFilter = "all" THEN matchesSearch
            ELSE matchesSearch /\ reg.payment_status = registrationFilter}

\* fetchData, lines 159-190: the registrations read answers with the rows; the
\* count probe that follows is only logged, whatever it answers, and the
\* donations read is issued.
FetchRegistrations ==
    \E c \in calls :
        /\ c.kind = "fetchData" /\ c.pc = "registrations"
        /\ registrations' = [registrations EXCEPT ![c.sess] = dbRegistrations]
        /\ calls' = (calls \ {c}) \cup
                       {[c EXCEPT !.pc = "donations", !.registrationsData = dbRegistrations]}
        /\ lastStep' = Step("fetchData:registrations", c, "none")
        /\ UNCHANGED <<dbRegistrations, dbDonations, donations, isLoading, statsData,
                       clicks, certified, notDashVars>>

\* fetchData, lines 164-167 and 203-210: the registrations read answers with an error.
FetchRegistrationsError ==
    \E c \in calls :
        /\ c.kind = "fetchData" /\ c.pc = "registrations"
        /\ calls' = calls \ {c}
        /\ isLoading' = [isLoading EXCEPT ![c.sess] = FALSE]
        /\ lastStep' = Step("fetchData:registrationsError", c, "error")
        /\ UNCHANGED <<dbRegistrations, dbDonations, registrations, donations, statsData,
                       clicks, certified, notDashVars>>

\* fetchData, lines 192-202 and 208-210: the donations read answers with the rows.
FetchDonations ==
    \E c \in calls :
        /\ c.kind = "fetchData" /\ c.pc = "donations"
        /\ donations' = [donations EXCEPT ![c.sess] = dbDonations]
        /\ statsData' = [statsData EXCEPT ![c.sess] =
                            CalculateStats(c.registrationsData, dbDonations)]
        /\ isLoading' = [isLoading EXCEPT ![c.sess] = FALSE]
        /\ calls' = calls \ {c}
        /\ lastStep' = Step("fetchData:donations", c, "none")
        /\ UNCHANGED <<dbRegistrations, dbDonations, registrations, clicks, certified,
                       notDashVars>>

\* fetchData, lines 192-195 and 203-210: the donations read answers with an error.
FetchDonationsError ==
    \E c \in calls :
        /\ c.kind = "fetchData" /\ c.pc = "donations"
        /\ calls' = calls \ {c}
        /\ isLoading' = [isLoading EXCEPT ![c.sess] = FALSE]
        /\ lastStep' = Step("fetchData:donationsError", c, "error")
        /\ UNCHANGED <<dbRegistrations, dbDonations, registrations, donations, statsData,
                       clicks, certified, notDashVars>>

\* The button a registration row shows (lines 598-616) and the status it asks for.
PaymentButton(reg) == IF reg.payment_status = "pending" THEN "paid" ELSE "pending"

\* A click on Mark as Paid / Mark as Pending: handleUpdatePaymentStatus up to
\* its await, lines 242-253.
ClickUpdatePaymentStatus ==
    \E s \in Sessions : \E reg \in ShownRegistrations(s) : \E d \in DashDraws :
        LET started == HandlerCall(s, "updatePaymentStatus", clicks + 1, reg.id,
                                   PaymentButton(reg),
                                   PaymentUpdateData(PaymentButton(reg), d, Now),
                                   registrations[s])
        IN  /\ clicks < MaxClicks
            /\ clicks' = clicks + 1
            /\ calls' = calls \cup {started}
            /\ lastStep' = Step("click:updatePaymentStatus", started, "none")
            /\ UNCHANGED <<dbRegistrations, dbDonations, registrations, donations,
                           isLoading, statsData, certified, notDashVars>>

\* handleUpdatePaymentStatus, lines 255-264: the update was applied.
UpdatePaymentStatusDone ==
    \E c \in calls :
        /\ c.kind = "updatePaymentStatus" /\ c.pc = "update"
        /\ dbRegistrations' = PatchRows(dbRegistrations, c.id, c.updateData)
        /\ registrations' = [registrations EXCEPT ![c.sess] =
                                PatchRows(c.closure, c.id, c.updateData)]
        /\ isLoading' = [isLoading EXCEPT ![c.sess] = TRUE]
        /\ calls' = (calls \ {c}) \cup {FetchCall(c.sess, CauseOf(c))}
        /\ lastStep' = Step("updatePaymentStatus:done", c, "success")
        /\ UNCHANGED <<dbDonations, donations, statsData, clicks, certified, notDashVars>>

\* handleUpdatePaymentStatus, lines 255 and 265-268: the update was rejected.
UpdatePaymentStatusError ==
    \E c \in calls :
        /\ c.kind = "updatePaymentStatus" /\ c.pc = "update"
        /\ calls' = calls \ {c}
        /\ lastStep' = Step("updatePaymentStatus:error", c, "error")
        /\ UNCHANGED <<dbRegistrations, dbDonations, registrations, donations, isLoading,
                       statsData, clicks, certified, notDashVars>>

\* updateData of handleUpdateDonationStatus
DonationUpdateData(status, now) == [status |-> status, updated_at |-> now]

\* The button a donation row shows (lines 740-760) and the status it asks for.
DonationButton(don) == IF don.status = "pending" THEN "completed" ELSE "pending"

\* A click on Mark Completed / Mark Pending: handleUpdateDonationStatus up to
\* its await, lines 272-282.
ClickUpdateDonationStatus ==
    \E s \in Sessions : \E don \in ShownDonations(s) :
        LET started == HandlerCall(s, "updateDonationStatus", clicks + 1, don.id,
                                   DonationButton(don),
                                   DonationUpdateData(DonationButton(don), Now),
                                   donations[s])
        IN  /\ clicks < MaxClicks
            /\ clicks' = clicks + 1
            /\ calls' = calls \cup {started}
            /\ lastStep' = Step("click:updateDonationStatus", started, "none")
            /\ UNCHANGED <<dbRegistrations, dbDonations, registrations, donations,
                           isLoading, statsData, certified, notDashVars>>

\* handleUpdateDonationStatus, lines 284-293: the update was applied.
UpdateDonationStatusDone ==
    \E c \in calls :
        /\ c.kind = "updateDonationStatus" /\ c.pc = "update"
        /\ dbDonations' = PatchRows(dbDonations, c.id, c.updateData)
        /\ donations' = [donations EXCEPT ![c.sess] = PatchRows(c.closure, c.id, c.updateData)]
        /\ isLoading' = [isLoading EXCEPT ![c.sess] = TRUE]
        /\ calls' = (calls \ {c}) \cup {FetchCall(c.sess, CauseOf(c))}
        /\ lastStep' = Step("updateDonationStatus:done", c, "success")
        /\ UNCHANGED <<dbRegistrations, registrations, statsData, clicks, certified,
                       notDashVars>>

\* handleUpdateDonationStatus, lines 284 and 294-297: the update was rejected.
UpdateDonationStatusError ==
    \E c \in calls :
        /\ c.kind = "updateDonationStatus" /\ c.pc = "update"
        /\ calls' = calls \ {c}
        /\ lastStep' = Step("updateDonationStatus:error", c, "error")
        /\ UNCHANGED <<dbRegistrations, dbDonations, registrations, donations, isLoading,
                       statsData, clicks, certified, notDashVars>>

\* A click on Send Certificate: handleSendCertificate up to its await, lines 300-308.
ClickSendCertificate ==
    \E s \in Sessions : \E don \in ShownDonations(s) :
        LET started == HandlerCall(s, "sendCertificate", clicks + 1, don.id, "",
                                   [certificate_sent |-> TRUE], donations[s])
        IN  /\ clicks < MaxClicks
            /\ ~CertificateDisabled(don)
            /\ clicks' = clicks + 1
            /\ calls' = calls \cup {started}
            /\ lastStep' = Step("click:sendCertificate", started, "none")
            /\ UNCHANGED <<dbRegistrations, dbDonations, registrations, donations,
                           isLoading, statsData, certified, notDashVars>>

\* handleSendCertificate, lines 310-321: the update was applied.
SendCertificateDone ==
    \E c \in calls :
        /\ c.kind = "sendCertificate" /\ c.pc = "update"
        /\ dbDonations' = PatchRows(dbDonations, c.id, c.updateData)
        /\ donations' = [donations EXCEPT ![c.sess] = PatchRows(c.closure, c.id, c.updateData)]
        /\ calls' = calls \ {c}
        /\ certified' = [certified EXCEPT ![c.sess] = @ \cup {c.id}]
        /\ lastStep' = Step("sendCertificate:done", c, "success")
        /\ UNCHANGED <<dbRegistrations, registrations, isLoading, statsData, clicks,
                       notDashVars>>

\* handleSendCertificate, lines 310-313 and 322-325: the update was rejected.
SendCertificateError ==
    \E c \in calls :
        /\ c.kind = "sendCertificate" /\ c.pc = "update"
        /\ calls' = calls \ {c}
        /\ lastStep' = Step("sendCertificate:error", c, "error")
        /\ UNCHANGED <<dbRegistrations, dbDonations, registrations, donations, isLoading,
                       statsData, clicks, certified, notDashVars>>

NextDash ==
    \/ FetchRegistrations
    \/ FetchRegistrationsError
    \/ FetchDonations
    \/ FetchDonationsError
    \/ ClickUpdatePaymentStatus
    \/ UpdatePaymentStatusDone
    \/ UpdatePaymentStatusError
    \/ ClickUpdateDonationStatus
    \/ UpdateDonationStatusDone
    \/ UpdateDonationStatusError
    \/ ClickSendCertificate
    \/ SendCertificateDone
    \/ SendCertificateError

\* Several sessions correcting payment statuses: the reads and updatePaymentStatus.
NextAdmins ==
    \/ FetchRegistrations
    \/ FetchRegistrationsError
    \/ FetchDonations
    \/ FetchDonationsError
    \/ ClickUpdatePaymentStatus
    \/ UpdatePaymentStatusDone
    \/ UpdatePaymentStatusError

(***************************************************************************)
(* Dashboard filtering: filteredRegistrations and filteredDonations.       *)
(***************************************************************************)
MaxFilterRows == 2

\* The free-text predicate of filteredRegistrations, lines 392-394.
MatchesSearchRegistration(reg, searchTerm) ==
    \/ Includes(ToLowerCase(reg.name), ToLowerCase(searchTerm))
    \/ Includes(ToLowerCase(reg.email), ToLowerCase(searchTerm))
    \/ Includes(ToLowerCase(reg.family_category), ToLowerCase(searchTerm))

\* The free-text predicate of filteredDonations, lines 401-403.
MatchesSearchDonation(don, searchTerm) ==
    \/ Includes(ToLowerCase(don.first_name \o <<" ">> \o don.last_name),
                ToLowerCase(searchTerm))
    \/ Includes(ToLowerCase(don.email), ToLowerCase(searchTerm))
    \/ Includes(ToLowerCase(don.designation), ToLowerCase(searchTerm))

\* A variant of filteredRegistrations that drops the status test.
FilteredRegistrationsIgnoringStatus(list, searchTerm, registrationFilter) ==
    SelectSeq(list, LAMBDA reg : MatchesSearchRegistration(reg, searchTerm))

\* filteredRegistrations, lines 391-398, as the list Array.prototype.filter returns
FilteredRegistrationsList(list, searchTerm, registrationFilter) ==
    SelectSeq(list, LAMBDA reg :
        IF registrationFilter = "all" THEN MatchesSearchRegistration(reg, searchTerm)
        ELSE MatchesSearchRegistration(reg, searchTerm)
                /\ reg.payment_status = registrationFilter)

\* filteredDonations, lines 400-407
FilteredDonationsList(list, searchTerm, donationFilter) ==
    SelectSeq(list, LAMBDA don :
        IF donationFilter = "all" THEN MatchesSearchDonation(don, searchTerm)
        ELSE MatchesSearchDonation(don, searchTerm) /\ don.status = donationFilter)

\* The combined filter of one kind of list.
Filtered(kind, list, searchTerm, statusFilter) ==
    IF kind = "registrations" THEN FilteredRegistrationsList(list, searchTerm, statusFilter)
    ELSE FilteredDonationsList(list, searchTerm, statusFilter)

\* The free-text predicate alone: the combined filter's first conjunct.
FilterBySearch(kind, list, searchTerm) ==
    IF kind = "registrations"
    THEN SelectSeq(list, LAMBDA reg : MatchesSearchRegistration(reg, searchTerm))
    ELSE SelectSeq(list, LAMBDA don : MatchesSearchDonation(don, searchTerm))

\* The status predicate alone: the combined filter's second conjunct ('all' passes).
FilterByStatus(kind, list, statusFilter) ==
    IF kind = "registrations"
    THEN SelectSeq(list, LAMBDA reg : statusFilter = "all" \/ reg.payment_status = statusFilter)
    ELSE SelectSeq(list, LAMBDA don : statusFilter = "all" \/ don.status = statusFilter)

\* The rows, search terms and filters the renders are exercised on.
FilterRegRows ==
    {Registration("r1", <<"A", "n", "n">>, <<"a", "@", "x">>, <<"D", "u", "o">>,
                  2, 1, 150, st, Null) : st \in {"paid", "pending"}}
    \cup {Registration("r2", <<"B", "o">>, <<"b", "@", "x">>, <<"S", "o", "l", "o">>,
                       1, 0, 80, st, Null) : st \in {"paid", "pending"}}

FilterDonRows ==
    {Donation("d1", <<"A", "n", "n">>, <<"L", "e", "e">>, <<"a", "@", "x">>,
              50, <<"C", "a", "m", "p">>, st) : st \in {"completed", "pending"}}
    \cup {Donation("d2", <<"C", "y">>, <<"P", "o", "e">>, <<"c", "@", "x">>,
                   20, <<"A", "n", "y">>, st) : st \in {"completed", "pending"}}

SearchTerms == {<<>>, <<"A", "N">>, <<"n", " ", "l">>, <<"s", "o">>, <<"z">>}

StatusFilters(kind) ==
    IF kind = "registrations" THEN {"all", "paid", "pending"}
    ELSE {"all", "completed", "pending"}

NoRender == [kind |-> "none"]
NoFiltered == [none |-> TRUE]

FilterIdle == filterIn = NoRender /\ filterOut = NoFiltered

InitFilter ==
    /\ \E kind \in {"registrations", "donations"} :
       \E list \in SeqsUpTo(IF kind = "registrations" THEN FilterRegRows ELSE FilterDonRows,
                            MaxFilterRows) :
       \E term \in SearchTerms : \E f \in StatusFilters(kind) :
          filterIn = [kind |-> kind, list |-> list, searchTerm |-> term, statusFilter |-> f]
    /\ filterOut = NoFiltered

\* One render: the combined filter, the two predicates applied one after the
\* other in both orders, and the combined filter applied to its own result.
RenderFiltered ==
    /\ filterOut = NoFiltered
    /\ LET k == filterIn.kind
           l == filterIn.list
           t == filterIn.searchTerm
           f == filterIn.statusFilter
       IN  filterOut' =
              [combined |-> Filtered(k, l, t, f),
               searchThenStatus |-> FilterByStatus(k, FilterBySearch(k, l, t), f),
               statusThenSearch |-> FilterBySearch(k, FilterByStatus(k, l, f), t),
               twice |-> Filtered(k, Filtered(k, l, t, f), t, f)]
    /\ UNCHANGED <<filterIn, csvVars, exportVars, mailVars, formVars, txVars, statsVars,
                   dashVars>>

NextFilter == RenderFiltered

(***************************************************************************)
(* CSV serialisation: escapeCSV and the joins of handleExportData.         *)
(***************************************************************************)
MaxFieldLen == 3

Comma == ","
Quote == "\""
Newline == "\n"

\* The characters field values are made of.
FieldChars == {"a", Comma, Quote, Newline}

\* str.replace(/"/g, '""')
RECURSIVE DoubleQuotes(_)
DoubleQuotes(str) ==
    IF str = <<>> THEN <<>>
    ELSE (IF Head(str) = Quote THEN <<Quote, Quote>> ELSE <<Head(str)>>)
            \o DoubleQuotes(Tail(str))

\* escapeCSV, lines 53-60, on a string value
EscapeCSV(str) ==
    IF Includes(str, <<Comma>>) \/ Includes(str, <<Quote>>)
    THEN <<Quote>> \o DoubleQuotes(str) \o <<Quote>>
    ELSE str

\* Array.prototype.join
RECURSIVE Join(_, _)
Join(parts, sep) ==
    IF parts = <<>> THEN <<>>
    ELSE IF Len(parts) = 1 THEN parts[1]
    ELSE parts[1] \o sep \o Join(Tail(parts), sep)

\* row.join(',') of a row of escaped fields, line 364
CsvRow(fields) == Join([i \in DOMAIN fields |-> EscapeCSV(fields[i])], <<Comma>>)

NoRow == <<>>
NoLine == [none |-> TRUE]

CsvIdle == csvIn = NoRow /\ csvOut = NoLine

\* A row of two fields.
InitCsv ==
    /\ csvIn \in [1..2 -> SeqsUpTo(FieldChars, MaxFieldLen)]
    /\ csvOut = NoLine

\* The line written for one row.
WriteCsvRow ==
    /\ csvOut = NoLine
    /\ csvOut' = [text |-> CsvRow(csvIn)]
    /\ UNCHANGED <<csvIn, filterVars, exportVars, mailVars, formVars, txVars, statsVars,
                   dashVars>>

NextCsv == WriteCsvRow

(***************************************************************************)
(* Export: handleExportData.                                               *)
(***************************************************************************)
\* String(n) of a natural number
RECURSIVE ToDecimal(_)
ToDecimal(n) ==
    IF n < 10 THEN <<Digits36[n + 1]>>
    ELSE ToDecimal(n \div 10) \o <<Digits36[(n % 10) + 1]>>

\* String.prototype.trim on spaces
RECURSIVE TrimStart(_)
TrimStart(str) ==
    IF str # <<>> /\ Head(str) = " " THEN TrimStart(Tail(str)) ELSE str

RECURSIVE TrimEnd(_)
TrimEnd(str) ==
    IF str # <<>> /\ str[Len(str)] = " " THEN TrimEnd(SubSeq(str, 1, Len(str) - 1))
    ELSE str

Trim(str) == TrimEnd(TrimStart(str))

\* (x || fallback) of a string column; a column the row does not carry is undefined
StringOr(row, column, fallback) ==
    IF column \in DOMAIN row /\ row[column] # <<>> THEN row[column] ELSE fallback

\* The characters of the words that the rows hold as atoms.
Chars(word) ==
    CASE word = "paid" -> <<"p", "a", "i", "d">>
      [] word = "pending" -> <<"p", "e", "n", "d", "i", "n", "g">>
      [] word = "completed" -> <<"c", "o", "m", "p", "l", "e", "t", "e", "d">>
      [] word = "d1" -> <<"d", "1">>
      [] word = "d2" -> <<"d", "2">>
      [] word = "Website Donation" -> <<"W", "e", "b", "s", "i", "t", "e", " ", "D", "o", "n", "a", "t", "i", "o", "n">>
      [] OTHER -> <<>>

\* 'N/A', 'Yes', 'No'
NA == <<"N", "/", "A">>
Yes == <<"Y", "e", "s">>
No == <<"N", "o">>

\* headers, lines 334 and 349
RegistrationHeaders ==
    <<<<"N", "a", "m", "e">>,
      <<"E", "m", "a", "i", "l">>,
      <<"P", "h", "o", "n", "e">>,
      <<"A", "d", "u", "l", "t", "s">>,
      <<"K", "i", "d", "s">>,
      <<"F", "a", "m", "i", "l", "y", " ", "T", "y", "p", "e">>,
      <<"A", "m", "o", "u", "n", "t">>,
      <<"S", "t", "a", "t", "u", "s">>,
      <<"T", "r", "a", "n", "s", "a", "c", "t", "i", "o", "n", " ", "I", "D">>,
      <<"D", "a", "t", "e">>,
      <<"T", "-", "S", "h", "i", "r", "t", " ", "S", "i", "z", "e", "s">>>>

DonationHeaders ==
    <<<<"N", "a", "m", "e">>,
      <<"E", "m", "a", "i", "l">>,
      <<"A", "m", "o", "u", "n", "t">>,
      <<"D", "e", "s", "i", "g", "n", "a", "t", "i", "o", "n">>,
      <<"A", "n", "o", "n", "y", "m", "o", "u", "s">>,
      <<"P", "a", "y", "m", "e", "n", "t", " ", "I", "D">>,
      <<"T", "y", "p", "e">>,
      <<"S", "t", "a", "t", "u", "s">>,
      <<"D", "a", "t", "e">>>>

\* The fields of one registration row, lines 335-347. The rows of this model
\* carry no phone, created_at or t_shirt_sizes: those columns are undefined.
RegistrationCsvData(reg) ==
    <<EscapeCSV(StringOr(reg, "name", <<>>)),
      EscapeCSV(StringOr(reg, "email", <<>>)),
      EscapeCSV(StringOr(reg, "phone", <<>>)),
      EscapeCSV(ToDecimal(reg.adult_count)),
      EscapeCSV(ToDecimal(reg.kids_count)),
      EscapeCSV(StringOr(reg, "family_category", <<>>)),
      EscapeCSV(ToDecimal(reg.total_amount)),
      EscapeCSV(Chars(reg.payment_status)),
      EscapeCSV(StringOr(reg, "transaction_id", NA)),
      EscapeCSV(StringOr(reg, "created_at", <<>>)),
      EscapeCSV(StringOr(reg, "t_shirt_sizes", NA))>>

\* The fields of one donation row, lines 350-360.
DonationCsvData(don) ==
    <<EscapeCSV(Trim(Trim(StringOr(don, "first_name", <<>>)) \o <<" ">>
                        \o Trim(StringOr(don, "last_name", <<>>)))),
      EscapeCSV(StringOr(don, "email", <<>>)),
      EscapeCSV(ToDecimal(don.amount)),
      EscapeCSV(StringOr(don, "designation", <<>>)),
      EscapeCSV(IF don.is_anonymous THEN Yes ELSE No),
      EscapeCSV(Chars(don.payment_id)),
      EscapeCSV(Chars(don.donation_type)),
      EscapeCSV(Chars(don.status)),
      EscapeCSV(StringOr(don, "created_at", <<>>))>>

\* csvContent of a list, lines 362-365
CsvContent(type, data) ==
    Join(<<Join(IF type = "registrations" THEN RegistrationHeaders ELSE DonationHeaders,
                <<Comma>>)>>
            \o [i \in DOMAIN data |->
                    Join(IF type = "registrations" THEN RegistrationCsvData(data[i])
                         ELSE DonationCsvData(data[i]),
                         <<Comma>>)],
         <<Newline>>)

NoExport == [none |-> TRUE]

ExportIdle == exportIn = NoRender /\ exportOut = NoExport

\* The session when Export is clicked: its list of the kind, the search term
\* and the status filter.
InitExport ==
    /\ \E kind \in {"registrations", "donations"} :
       \E list \in SeqsUpTo(IF kind = "registrations" THEN FilterRegRows ELSE FilterDonRows,
                            MaxFilterRows) :
       \E term \in SearchTerms : \E f \in StatusFilters(kind) :
          exportIn = [kind |-> kind, list |-> list, searchTerm |-> term, statusFilter |-> f]
    /\ exportOut = NoExport

\* handleExportData(type), lines 328-377: data is the session's whole list,
\* line 329; the file is built in the browser and no request is made.
HandleExportData ==
    /\ exportOut = NoExport
    /\ exportOut' = [csvContent |-> CsvContent(exportIn.kind, exportIn.list),
                     requests |-> <<>>]
    /\ UNCHANGED <<exportIn, filterVars, csvVars, mailVars, formVars, txVars, statsVars,
                   dashVars>>

NextExport == HandleExportData

(***************************************************************************)
(* Mail relay: POST /send-volunteer-application.                           *)
(***************************************************************************)
MaxRequests == 2

\* The fields a JSON body may carry.
PayloadFields == {"firstName", "lastName", "email", "phone", "reason"}

\* res.status(200).json({ success: true })
Ok200 == [status |-> 200, success |-> TRUE, message |-> "", error |-> ""]

\* res.status(500).json({ success: false, message, error: error.message })
Fail500(error) ==
    [status |-> 500, success |-> FALSE, message |-> "Failed to send email", error |-> error]

\* A request whose handler has run up to line 86 or to its catch. formData is
\* the set of the fields the body carries; attempts counts the sendMail calls.
Request(formData, pc, attempts, sent, responses) ==
    [formData |-> formData, pc |-> pc, attempts |-> attempts, sent |-> sent,
     responses |-> responses]

MailIdle == requests = <<>>

InitMail == requests = <<>>

\* Lines 37-50 and 90-97: a request arrives and a template cannot be read.
PostTemplateMissing ==
    \E formData \in SUBSET PayloadFields :
        /\ Len(requests) < MaxRequests
        /\ requests' = Append(requests,
                              Request(formData, "done", 0, FALSE, <<Fail500("ENOENT")>>))
        /\ UNCHANGED <<filterVars, csvVars, exportVars, formVars, txVars, statsVars, dashVars>>

\* Lines 37-65 and 90-97: a request arrives without reason; formData.reason
\* is undefined and formData.reason.replace throws.
PostWithoutReason ==
    \E formData \in SUBSET PayloadFields :
        /\ Len(requests) < MaxRequests
        /\ "reason" \notin formData
        /\ requests' = Append(requests,
                              Request(formData, "done", 0, FALSE, <<Fail500("TypeError")>>))
        /\ UNCHANGED <<filterVars, csvVars, exportVars, formVars, txVars, statsVars, dashVars>>

\* Lines 37-86: a request arrives with reason; the placeholders are replaced
\* (an absent firstName, lastName or email by the text 'undefined', an absent
\* phone by 'Not provided') and sendMail is called.
PostDispatches ==
    \E formData \in SUBSET PayloadFields :
        /\ Len(requests) < MaxRequests
        /\ "reason" \in formData
        /\ requests' = Append(requests, Request(formData, "sendMail", 1, FALSE, <<>>))
        /\ UNCHANGED <<filterVars, csvVars, exportVars, formVars, txVars, statsVars, dashVars>>

\* Lines 86-89: sendMail resolves.
SendMailResolves ==
    \E r \in DOMAIN requests :
        /\ requests[r].pc = "sendMail"
        /\ requests' = [requests EXCEPT ![r].pc = "done", ![r].sent = TRUE,
                                        ![r].responses = Append(@, Ok200)]
        /\ UNCHANGED <<filterVars, csvVars, exportVars, formVars, txVars, statsVars, dashVars>>

\* Lines 86 and 90-97: sendMail rejects.
SendMailRejects ==
    \E r \in DOMAIN requests :
        /\ requests[r].pc = "sendMail"
        /\ requests' = [requests EXCEPT ![r].pc = "done",
                                        ![r].responses = Append(@, Fail500("SMTP"))]
        /\ UNCHANGED <<filterVars, csvVars, exportVars, formVars, txVars, statsVars, dashVars>>

NextMail ==
    \/ PostTemplateMissing
    \/ PostWithoutReason
    \/ PostDispatches
    \/ SendMailResolves
    \/ SendMailRejects

HelpersIdle == FilterIdle /\ CsvIdle /\ ExportIdle /\ MailIdle

(***************************************************************************)
(* Specifications: one per component; the others stay idle.                *)
(***************************************************************************)
StartForm == InitForm /\ TxIdle /\ StatsIdle /\ DashIdle /\ HelpersIdle
SpecForm == StartForm /\ [][NextForm]_vars

\* The donation form when every gateway call and every store call returns:
\* createPaymentIntent, confirmCardPayment and the insert each get an answer.
SpecFormLive ==
    /\ StartForm
    /\ [][NextForm]_vars
    /\ WF_vars(IntentFails \/ CardMissing \/ IntentCreated)
    /\ WF_vars(ConfirmError \/ ConfirmSucceeds)
    /\ WF_vars(InsertSucceeds \/ InsertFails)

StartTx == InitTx /\ InitForm /\ StatsIdle /\ DashIdle /\ HelpersIdle
SpecTx == StartTx /\ [][NextTx]_vars

StartStats == InitStats /\ InitForm /\ TxIdle /\ DashIdle /\ HelpersIdle
SpecStats == StartStats /\ [][NextStats]_vars

StartDash == InitDash /\ InitForm /\ TxIdle /\ StatsIdle /\ HelpersIdle
SpecDash == StartDash /\ [][NextDash]_vars

StartAdmins == InitAdmins /\ InitForm /\ TxIdle /\ StatsIdle /\ HelpersIdle
SpecAdmins == StartAdmins /\ [][NextAdmins]_vars

StartFilter ==
    InitFilter /\ CsvIdle /\ ExportIdle /\ MailIdle /\ InitForm /\ TxIdle /\ StatsIdle /\ DashIdle
SpecFilter == StartFilter /\ [][NextFilter]_vars

StartCsv ==
    InitCsv /\ FilterIdle /\ ExportIdle /\ MailIdle /\ InitForm /\ TxIdle /\ StatsIdle /\ DashIdle
SpecCsv == StartCsv /\ [][NextCsv]_vars

StartExport ==
    InitExport /\ FilterIdle /\ CsvIdle /\ MailIdle /\ InitForm /\ TxIdle /\ StatsIdle /\ DashIdle
SpecExport == StartExport /\ [][NextExport]_vars

StartMail ==
    InitMail /\ FilterIdle /\ CsvIdle /\ ExportIdle /\ InitForm /\ TxIdle /\ StatsIdle /\ DashIdle
SpecMail == StartMail /\ [][NextMail]_vars

(***************************************************************************)
(* Properties of the donation submission flow.                             *)
(***************************************************************************)
Runs == 1..Len(runs)
EventsOf(r, kind) == {i \in 1..Len(events) : events[i].run = r /\ events[i].kind = kind}
GatewayFailures == {"intent", "card", "confirm"}
Settled(r) == runs[r].pc = "done"
InFlight == {r \in Runs : ~Settled(r)}

\* C1: a submission whose intent creation failed, whose card widget was
\* missing or whose confirmation returned an error ends with an error
\* notification; it issued no insert, the store holds no row for it, and it
\* did not navigate.
C1_GatewayFailureAborts ==
    \A r \in Runs :
        runs[r].failure \in GatewayFailures =>
            /\ Settled(r)
            /\ EventsOf(r, "toast.error") # {}
            /\ EventsOf(r, "insert") = {}
            /\ EventsOf(r, "navigate") = {}
            /\ EventsOf(r, "toast.success") = {}
            /\ \A i \in 1..Len(formDonations) :
                   runs[r].clientSecret = 0 \/ formDonations[i].payment_id # runs[r].clientSecret
            /\ (\A q \in Runs : runs[q].failure # "none" \/ ~Settled(q))
                   => (view = "form" /\ navState = NoNav /\ formDonations = <<>>)

C1_Witness ==
    \A f \in GatewayFailures : \E r \in Runs : Settled(r) /\ runs[r].failure = f

\* C2: when the payment was confirmed and the store rejected the insert, the
\* submission still shows the success notification and navigates to the
\* confirmation view, shows no error, and the store has no row for that
\* payment although the gateway has charged it.
C2_InsertFailureSilent ==
    \A r \in Runs :
        (Settled(r) /\ runs[r].failure = "none" /\ runs[r].dbError) =>
            /\ EventsOf(r, "toast.success") # {}
            /\ EventsOf(r, "navigate") # {}
            /\ EventsOf(r, "toast.error") = {}
            /\ view = "success"
            /\ navState.kind = "donation-success"
            /\ runs[r].ref \in charged
            /\ \A i \in 1..Len(formDonations) : formDonations[i].payment_id # runs[r].ref

C2_Witness ==
    \E r \in Runs : Settled(r) /\ runs[r].failure = "none" /\ runs[r].dbError
                    /\ runs[r].ref \in charged

\* C3: every inserted donation row has status completed and carries as
\* payment_id the reference the gateway returned for the submission that
\* inserted it, and the confirmation view is given that same reference.
C3_InsertedRowCarriesReference ==
    /\ \A i \in 1..Len(formDonations) :
          /\ formDonations[i].status = "completed"
          /\ formDonations[i].payment_id \in charged
          /\ \E r \in Runs : /\ runs[r].ref = formDonations[i].payment_id
                             /\ EventsOf(r, "insert") # {}
                             /\ formDonations[i] = DonationRow(runs[r].data, runs[r].ref) 
    /\ \A i \in 1..Len(events) :
          /\ events[i].kind = "insert" =>
                /\ events[i].arg.status = "completed"
                /\ events[i].arg.payment_id = runs[events[i].run].ref
                /\ events[i].arg.payment_id \in charged
          /\ events[i].kind = "navigate" =>
                /\ events[i].arg = runs[events[i].run].ref
                /\ events[i].arg \in charged
                /\ navState.transactionId = events[i].arg
                /\ \A j \in EventsOf(events[i].run, "insert") :
                       events[j].arg.payment_id = navState.transactionId

C3_Witness ==
    /\ Len(formDonations) = 1
    /\ formDonations[1].payment_id = 2
    /\ navState.kind = "donation-success"

\* The position of a step in the order of one submission.
StepRank(kind) ==
    CASE kind = "createPaymentIntent" -> 1
      [] kind = "confirmCardPayment"  -> 2
      [] kind = "insert"              -> 3
      [] kind = "toast.success"       -> 4
      [] kind = "navigate"            -> 5
      [] OTHER                        -> 6

\* C4: within one submission the payment-intent request, the confirmation,
\* the insert and the navigation happen in that order, each at most once, and
\* an insert or a navigation happens only after the gateway has confirmed
\* that submission's payment.
C4_StepOrder ==
    /\ \A i, j \in 1..Len(events) :
          (i < j /\ events[i].run = events[j].run) =>
              StepRank(events[i].kind) < StepRank(events[j].kind)
    /\ \A i \in 1..Len(events) :
          events[i].kind \in {"insert", "navigate"} =>
              /\ runs[events[i].run].ref \in charged
              /\ \E j \in 1..(i - 1) : /\ events[j].run = events[i].run
                                       /\ events[j].kind = "confirmCardPayment"
                                       /\ events[j].arg = runs[events[i].run].ref
              /\ \E j \in 1..(i - 1) : /\ events[j].run = events[i].run
                                       /\ events[j].kind = "createPaymentIntent"
    /\ \A r \in Runs :
          EventsOf(r, "navigate") # {} => EventsOf(r, "insert") # {}

C4_Witness ==
    \E r \in Runs : /\ EventsOf(r, "createPaymentIntent") # {}
                    /\ EventsOf(r, "confirmCardPayment") # {}
                    /\ EventsOf(r, "insert") # {}
                    /\ EventsOf(r, "navigate") # {}
                    /\ r > 1

\* C5: while a submission is in flight the submit control is disabled, so at
\* most one submission of the form is in flight at any time.
C5_AtMostOneInFlight ==
    /\ Cardinality(InFlight) <= 1
    /\ InFlight # {} => (isProcessingPayment /\ SubmitDisabled /\ ~ENABLED Submit)

C5_Witness ==
    \E r \in Runs : r > 1 /\ ~Settled(r) /\ runs[r].pc = "confirm"

(***************************************************************************)
(* Properties of the patch of updatePaymentStatus.                         *)
(***************************************************************************)
LowerAlnum == {Digits36[i] : i \in 1..36}

\* tx_[a-z0-9]{9}
MatchesTxPattern(t) ==
    /\ Len(t) = 12
    /\ SubSeq(t, 1, 3) = <<"t", "x", "_">>
    /\ \A i \in 4..12 : t[i] \in LowerAlnum

\* C7: the patch for 'paid' has a non-null transaction_id matching
\* tx_[a-z0-9]{9}, the patch for 'pending' has transaction_id = null.
C7_TransactionIdPattern ==
    txOut # NoPatch =>
        /\ txIn.status = "paid" =>
              (txOut.transaction_id # Null /\ MatchesTxPattern(txOut.transaction_id))
        /\ txIn.status = "pending" => txOut.transaction_id = Null

\* The part of C7 that holds: non-null with the prefix tx_ and at most nine
\* characters of [a-z0-9] for 'paid', null for 'pending'.
C7_TransactionIdShape ==
    txOut # NoPatch =>
        /\ txOut.payment_status = txIn.status
        /\ txIn.status = "paid" =>
              /\ txOut.transaction_id # Null
              /\ Len(txOut.transaction_id) \in 3..12
              /\ SubSeq(txOut.transaction_id, 1, 3) = <<"t", "x", "_">>
              /\ \A i \in 4..Len(txOut.transaction_id) : txOut.transaction_id[i] \in LowerAlnum
        /\ txIn.status = "pending" => txOut.transaction_id = Null

C7_NineCharsReached ==
    txOut # NoPatch /\ txIn.status = "paid" /\ MatchesTxPattern(txOut.transaction_id)

(***************************************************************************)
(* Properties of calculateStats.                                           *)
(***************************************************************************)
\* The sum of f[i] over the indices i in S.
RECURSIVE SumOver(_, _)
SumOver(f, S) ==
    IF S = {} THEN 0
    ELSE LET i == CHOOSE x \in S : TRUE IN f[i] + SumOver(f, S \ {i})

\* C10: totalParticipants is the sum of adult_count + kids_count over all the
\* registrations, totalRevenue the sum of total_amount over the paid ones,
\* totalDonationAmount the sum of amount over the completed donations.
C10_StatsAreSums ==
    statsCalled =>
        /\ statsOut.totalParticipants =
              SumOver([i \in DOMAIN statsRegs |->
                          statsRegs[i].adult_count + statsRegs[i].kids_count],
                      DOMAIN statsRegs)
        /\ statsOut.totalRevenue =
              SumOver([i \in DOMAIN statsRegs |-> statsRegs[i].total_amount],
                      {i \in DOMAIN statsRegs : statsRegs[i].payment_status = "paid"})
        /\ statsOut.totalDonationAmount =
              SumOver([i \in DOMAIN statsDons |-> statsDons[i].amount],
                      {i \in DOMAIN statsDons : statsDons[i].status = "completed"})

C10_Witness ==
    /\ statsCalled
    /\ Len(statsRegs) = 2 /\ Len(statsDons) = 2
    /\ statsRegs[1].payment_status = "paid" /\ statsRegs[2].payment_status = "pending"
    /\ statsRegs[2].total_amount = 150
    /\ statsDons[1].status = "pending" /\ statsDons[1].amount = 50
    /\ statsDons[2].status = "completed"
    /\ statsOut.totalRevenue = 150 /\ statsOut.totalParticipants = 5
    /\ statsOut.totalDonationAmount = 50

(***************************************************************************)
(* Properties of the admin dashboard.                                      *)
(***************************************************************************)
\* C6: in the Record Store a registration has a non-null transaction_id only
\* if its payment_status is paid, under any interleaving of
\* updatePaymentStatus calls from the admin sessions.
C6_TransactionIdOnlyWhenPaid ==
    \A i \in DOMAIN dbRegistrations :
        dbRegistrations[i].transaction_id # Null =>
            dbRegistrations[i].payment_status = "paid"

\* admin2's update has just demoted r1, which carried a transaction id, while
\* the reload of admin1's update that promoted r2 is still in flight.
C6_Witness ==
    /\ lastStep.op = "updatePaymentStatus:done"
    /\ lastStep.call.sess = "admin2"
    /\ lastStep.call.id = "r1" /\ lastStep.call.status = "pending"
    /\ dbRegistrations[1].payment_status = "pending"
    /\ dbRegistrations[1].transaction_id = Null
    /\ dbRegistrations[1].updated_at > 0
    /\ dbRegistrations[2].payment_status = "paid"
    /\ dbRegistrations[2].transaction_id # Null
    /\ \E c \in calls :
          /\ c.sess = "admin1" /\ c.kind = "fetchData"
          /\ c.cause.kind = "updatePaymentStatus" /\ c.cause.id = "r2"

\* C8: when the reload that follows a successful updatePaymentStatus(id, 'paid')
\* settles, the session's registration has payment_status paid and a non-null
\* transaction_id, is listed by the 'paid' filter view and is not listed by
\* the 'pending' one. Stated for the case where the Record Store still holds
\* the row as paid, that is, where no later update has undone the change.
C8_PaidAfterReload ==
    (/\ lastStep.op = "fetchData:donations"
     /\ lastStep.call.cause.kind = "updatePaymentStatus"
     /\ lastStep.call.cause.status = "paid"
     /\ \E i \in DOMAIN dbRegistrations :
           /\ dbRegistrations[i].id = lastStep.call.cause.id
           /\ dbRegistrations[i].payment_status = "paid")
    => LET list == registrations[lastStep.call.sess]
           id == lastStep.call.cause.id
       IN  /\ \E reg \in FilteredRegistrations(list, <<>>, "paid") : reg.id = id
           /\ \A reg \in FilteredRegistrations(list, <<>>, "pending") : reg.id # id
           /\ \A reg \in Rows(list) :
                 reg.id = id => reg.payment_status = "paid" /\ reg.transaction_id # Null

\* C9: once sendCertificate(id) has succeeded in a session, the session's copy
\* of the donation has certificate_sent = true and its Send Certificate
\* control is disabled, whatever handlers run afterwards. Stated for the
\* states in which the table is displayed.
C9_CertificateStaysDisabled ==
    \A s \in Sessions : \A id \in certified[s] :
        ~isLoading[s] =>
            \A don \in Rows(donations[s]) :
                don.id = id => don.certificate_sent /\ CertificateDisabled(don)

(***************************************************************************)
(* Properties of the dashboard's helpers.                                  *)
(***************************************************************************)
\* C11: for every list, search term and status filter, the free-text
\* predicate followed by the status predicate, the status predicate followed
\* by the free-text predicate and the combined filter of the dashboard give
\* the same result, and filtering the filtered list again changes nothing.
C11_FilterCommutesAndIdempotent ==
    filterOut # NoFiltered =>
        /\ filterOut.searchThenStatus = filterOut.combined
        /\ filterOut.statusThenSearch = filterOut.combined
        /\ filterOut.twice = filterOut.combined

\* A render in which each predicate alone keeps a row the other one rejects.
C11_Witness ==
    /\ filterOut # NoFiltered
    /\ Len(filterIn.list) = 2
    /\ Len(filterOut.combined) = 0
    /\ Len(FilterBySearch(filterIn.kind, filterIn.list, filterIn.searchTerm)) = 1
    /\ Len(FilterByStatus(filterIn.kind, filterIn.list, filterIn.statusFilter)) = 1

\* A standard RFC-4180 reader: the records of a text, each one the list of its
\* fields. inQuotes tells whether position i lies inside a quoted field.
RECURSIVE ParseFrom(_, _, _, _, _, _)
ParseFrom(text, i, inQuotes, field, record, records) ==
    IF i > Len(text) THEN Append(records, Append(record, field))
    ELSE IF inQuotes
         THEN IF text[i] = Quote
              THEN IF i < Len(text) /\ text[i + 1] = Quote
                   THEN ParseFrom(text, i + 2, TRUE, Append(field, Quote), record, records)
                   ELSE ParseFrom(text, i + 1, FALSE, field, record, records)
              ELSE ParseFrom(text, i + 1, TRUE, Append(field, text[i]), record, records)
         ELSE IF text[i] = Quote /\ field = <<>>
              THEN ParseFrom(text, i + 1, TRUE, field, record, records)
              ELSE IF text[i] = Comma
              THEN ParseFrom(text, i + 1, FALSE, <<>>, Append(record, field), records)
              ELSE IF text[i] = Newline
              THEN ParseFrom(text, i + 1, FALSE, <<>>, <<>>,
                             Append(records, Append(record, field)))
              ELSE ParseFrom(text, i + 1, FALSE, Append(field, text[i]), record, records)

ParseCSV(text) == ParseFrom(text, 1, FALSE, <<>>, <<>>, <<>>)

JohnDoe == <<"J", "o", "h", "n", Comma, " ", Quote, "D", "o", "e", Quote>>

\* C12: for every field value, with commas, double quotes and newlines among
\* its characters, the row written with escapeCSV and joined with commas is
\* read back by an RFC-4180 reader as the original field values; and
\* John, "Doe" is written as "John, ""Doe""".
C12_EscapeRoundTrips ==
    /\ EscapeCSV(JohnDoe) =
          <<Quote>> \o <<"J", "o", "h", "n", Comma, " ", Quote, Quote, "D", "o", "e",
                         Quote, Quote>> \o <<Quote>>
    /\ csvOut # NoLine => ParseCSV(csvOut.text) = <<csvIn>>

\* What holds of C12: rows whose fields hold no newline are read back.
EscapeRoundTripsWithoutNewline ==
    (csvOut # NoLine /\ \A k \in DOMAIN csvIn : ~Includes(csvIn[k], <<Newline>>))
        => ParseCSV(csvOut.text) = <<csvIn>>

\* C13: the exported file is the header row followed by exactly one row per
\* record of the list that passes the current search term and status filter,
\* in the filtered list's order, and no Record Store request is issued.
C13_ExportIsFilteredList ==
    exportOut # NoExport =>
        /\ exportOut.csvContent =
              CsvContent(exportIn.kind,
                         Filtered(exportIn.kind, exportIn.list, exportIn.searchTerm,
                                  exportIn.statusFilter))
        /\ exportOut.requests = <<>>

\* What holds of C13: the file is the header row and one row per record of
\* the session's whole list, and no request is made.
ExportIsWholeList ==
    exportOut # NoExport =>
        LET text == exportOut.csvContent
            header == Join(IF exportIn.kind = "registrations" THEN RegistrationHeaders
                           ELSE DonationHeaders, <<Comma>>)
        IN  /\ SubSeq(text, 1, Len(header)) = header
            /\ Cardinality({i \in DOMAIN text : text[i] = Newline}) = Len(exportIn.list)
            /\ exportOut.requests = <<>>

(***************************************************************************)
(* Properties of the dashboard's reads and handlers.                       *)
(***************************************************************************)
\* C14: when the registrations read or the donations read of a fetchData call
\* fails, an error notification is shown and both lists of the session hold
\* the values they held when that fetchData call started. Stated for the
\* fetchData call of the mount, which starts from the two empty lists and
\* during which the session runs no handler.
C14_FailedReadKeepsLists ==
    (/\ lastStep.op \in {"fetchData:registrationsError", "fetchData:donationsError"}
     /\ lastStep.call.cause = NoCause)
    => /\ lastStep.toast = "error"
       /\ registrations[lastStep.call.sess] = <<>>
       /\ donations[lastStep.call.sess] = <<>>

\* What holds of C14: a failed read shows the error notification, and a
\* failed registrations read of the mount's fetchData leaves both lists empty.
FailedReadShowsError ==
    /\ lastStep.op \in {"fetchData:registrationsError", "fetchData:donationsError"} =>
          lastStep.toast = "error"
    /\ (lastStep.op = "fetchData:registrationsError" /\ lastStep.call.cause = NoCause) =>
          /\ registrations[lastStep.call.sess] = <<>>
          /\ donations[lastStep.call.sess] = <<>>

\* C15: when the Record Store rejects the update of updatePaymentStatus or
\* updateDonationStatus, an error notification is shown and the session's row
\* shows the requested status (the optimistic patch is in the local list).
C15_RejectedUpdateKeepsPatch ==
    /\ lastStep.op = "updatePaymentStatus:error" =>
          /\ lastStep.toast = "error"
          /\ \E reg \in Rows(registrations[lastStep.call.sess]) :
                reg.id = lastStep.call.id /\ reg.payment_status = lastStep.call.status
    /\ lastStep.op = "updateDonationStatus:error" =>
          /\ lastStep.toast = "error"
          /\ \E don \in Rows(donations[lastStep.call.sess]) :
                don.id = lastStep.call.id /\ don.status = lastStep.call.status

\* What holds of C15: a rejected update shows the error notification and
\* changes neither the Record Store nor the session's lists.
RejectedUpdateChangesNothing ==
    [][\A c \in calls :
          (c.pc = "update" /\ c \notin calls' /\ lastStep'.toast = "error") =>
              /\ lastStep'.op \in {"updatePaymentStatus:error", "updateDonationStatus:error",
                                   "sendCertificate:error"}
              /\ UNCHANGED <<dbRegistrations, dbDonations, registrations, donations>>]_vars

\* C16: every successful mutation (updatePaymentStatus, updateDonationStatus,
\* sendCertificate) is followed by a reload: when the handler has shown its
\* success, the fetchData() call it made is in flight.
C16_SuccessStartsReload ==
    lastStep.op \in {"updatePaymentStatus:done", "updateDonationStatus:done",
                     "sendCertificate:done"} =>
        \E f \in calls :
            /\ f.kind = "fetchData" /\ f.sess = lastStep.call.sess
            /\ f.cause = CauseOf(lastStep.call)

\* What holds of C16: the two status updates start a reload on success.
StatusUpdateStartsReload ==
    lastStep.op \in {"updatePaymentStatus:done", "updateDonationStatus:done"} =>
        \E f \in calls :
            /\ f.kind = "fetchData" /\ f.sess = lastStep.call.sess
            /\ f.cause = CauseOf(lastStep.call)
            /\ f.pc = "registrations"
            /\ isLoading[f.sess]

\* C17: whenever no request of a session is in flight, the statistics it
\* displays are those computed from its two lists; in particular after every
\* fetchData call has settled, with success or with failure.
C17_StatsMatchLists ==
    \A s \in Sessions :
        (\A c \in calls : c.sess # s) =>
            statsData[s] = CalculateStats(registrations[s], donations[s])

\* The mutation handlers of a session that await the Record Store's answer.
HandlersInFlight(s) ==
    {c \in calls : c.sess = s /\ c.pc = "update"
                      /\ c.kind \in {"updatePaymentStatus", "updateDonationStatus",
                                     "sendCertificate"}}

\* C18: within one session no two mutation handlers for the same record are
\* in flight at the same time.
C18_OneHandlerPerRecord ==
    \A s \in Sessions : \A c1, c2 \in HandlersInFlight(s) :
        c1.id = c2.id => c1 = c2

\* C20: the two reads of fetchData are independent: whether the registrations
\* read has succeeded or failed, the invocation goes on to issue the donations
\* read (whose rows are then loaded into the donations list).
C20_DonationsReadIndependent ==
    lastStep.op \in {"fetchData:registrations", "fetchData:registrationsError"} =>
        \E f \in calls :
            /\ f.kind = "fetchData" /\ f.sess = lastStep.call.sess
            /\ f.cause = lastStep.call.cause
            /\ f.pc = "donations"

\* What holds of C20: after a successful registrations read the donations read
\* is issued, and its rows are loaded when it succeeds.
DonationsReadAfterRegistrations ==
    /\ lastStep.op = "fetchData:registrations" =>
          \E f \in calls :
              /\ f.kind = "fetchData" /\ f.sess = lastStep.call.sess
              /\ f.cause = lastStep.call.cause
              /\ f.pc = "donations"
    /\ lastStep.op = "fetchData:donations" => donations[lastStep.call.sess] = dbDonations

(***************************************************************************)
(* Properties of the mail relay.                                           *)
(***************************************************************************)
\* The fields the body of a request must carry (phone is optional).
RequiredFields == {"firstName", "lastName", "email", "reason"}

\* C19: every request makes at most one dispatch attempt and receives exactly
\* one response, 200 {success: true} if and only if the dispatch succeeded and
\* 500 {success: false, message, error} for every failure: template load,
\* missing payload field, SMTP failure.
C19_OneAttemptOneResponse ==
    \A r \in DOMAIN requests :
        /\ requests[r].attempts <= 1
        /\ Len(requests[r].responses) <= 1
        /\ requests[r].pc = "done" =>
              /\ Len(requests[r].responses) = 1
              /\ requests[r].responses[1] = Ok200 <=> requests[r].sent
              /\ ~requests[r].sent =>
                    /\ requests[r].responses[1].status = 500
                    /\ requests[r].responses[1].success = FALSE
              /\ ~(RequiredFields \subseteq requests[r].formData) =>
                    requests[r].responses[1].status = 500

\* What holds of C19: one attempt at most, exactly one response once the
\* handler is done, 200 exactly when sendMail resolved and 500 otherwise.
RelayAnswersOnce ==
    \A r \in DOMAIN requests :
        /\ requests[r].attempts <= 1
        /\ Len(requests[r].responses) <= 1
        /\ requests[r].pc = "done" =>
              /\ Len(requests[r].responses) = 1
              /\ requests[r].responses[1] = Ok200 <=> requests[r].sent
              /\ ~requests[r].sent => requests[r].responses[1].status = 500

(***************************************************************************)
(* Termination of the donation submission.                                 *)
(***************************************************************************)
\* The calls a run has made to the gateway and to the store.
GatewayOrStoreCalls(r) ==
    EventsOf(r, "createPaymentIntent") \cup EventsOf(r, "confirmCardPayment")
        \cup EventsOf(r, "insert")

\* C21: when every gateway and store call returns, every submission that set
\* the in-flight flag ends with the flag cleared and the submit control
\* enabled, whatever its outcome; and a submit made while the payment library
\* is not initialised shows an error, leaves the flag alone and makes no
\* gateway or store call.
C21_FlagEventuallyCleared ==
    /\ \A r \in 1..MaxSubmits :
          (r \in Runs /\ ~Settled(r) /\ isProcessingPayment)
              ~> (r \in Runs /\ Settled(r) /\ ~isProcessingPayment /\ ~SubmitDisabled)
    /\ [](\A r \in Runs :
            runs[r].failure = "uninitialized" =>
                /\ Settled(r)
                /\ EventsOf(r, "toast.error") # {}
                /\ GatewayOrStoreCalls(r) = {})
    /\ [][(Len(runs') > Len(runs) /\ runs'[Len(runs')].failure = "uninitialized")
             => UNCHANGED <<isProcessingPayment, nIntents, charged, formDonations>>]_vars

\* The three submissions have ended, the flag is clear and the control is
\* enabled: one was made before the elements were there, one lost its card
\* widget after the flag was set, one was charged and its insert was rejected.
C21_Witness ==
    /\ Len(runs) = 3
    /\ \A r \in Runs : Settled(r)
    /\ runs[1].failure = "uninitialized"
    /\ runs[2].failure = "card"
    /\ runs[3].failure = "none" /\ runs[3].dbError
    /\ ~isProcessingPayment /\ ~SubmitDisabled

(***************************************************************************)
(* Frame of the dashboard's mutations in the Record Store.                 *)
(***************************************************************************)
\* The fields in which two rows differ.
ChangedFields(old, new) == {f \in DOMAIN old : old[f] # new[f]}

\* The fields each mutation may write.
PatchedFields(op) ==
    CASE op = "updatePaymentStatus:done" -> {"payment_status", "transaction_id", "updated_at"}
      [] op = "updateDonationStatus:done" -> {"status", "updated_at"}
      [] op = "sendCertificate:done" -> {"certificate_sent"}
      [] OTHER -> {}

\* C22: each dashboard mutation changes in the Record Store only the row whose
\* id matches, and of it only the fields of its patch; every other row and
\* field is unchanged, no row is deleted, and no operation of the dashboard
\* takes certificate_sent from true back to false.
C22_MutationFrame ==
    [][/\ DOMAIN dbRegistrations' = DOMAIN dbRegistrations
       /\ DOMAIN dbDonations' = DOMAIN dbDonations
       /\ \A i \in DOMAIN dbRegistrations :
             /\ DOMAIN dbRegistrations'[i] = DOMAIN dbRegistrations[i]
             /\ dbRegistrations'[i].id = dbRegistrations[i].id
             /\ dbRegistrations'[i] # dbRegistrations[i] =>
                   /\ lastStep'.op = "updatePaymentStatus:done"
                   /\ lastStep'.call.id = dbRegistrations[i].id
                   /\ ChangedFields(dbRegistrations[i], dbRegistrations'[i])
                         \subseteq PatchedFields(lastStep'.op)
       /\ \A i \in DOMAIN dbDonations :
             /\ DOMAIN dbDonations'[i] = DOMAIN dbDonations[i]
             /\ dbDonations'[i].id = dbDonations[i].id
             /\ dbDonations[i].certificate_sent => dbDonations'[i].certificate_sent
             /\ dbDonations'[i] # dbDonations[i] =>
                   /\ lastStep'.op \in {"updateDonationStatus:done", "sendCertificate:done"}
                   /\ lastStep'.call.id = dbDonations[i].id
                   /\ ChangedFields(dbDonations[i], dbDonations'[i])
                         \subseteq PatchedFields(lastStep'.op)]_vars

\* A certificate has just been recorded for d1, whose status an earlier
\* mutation had set to pending; d2 and the registrations are as they were.
C22_Witness ==
    /\ lastStep.op = "sendCertificate:done" /\ lastStep.call.id = "d1"
    /\ dbDonations[1].certificate_sent
    /\ dbDonations[1].status = "pending" /\ dbDonations[1].updated_at > 0
    /\ dbDonations[1].amount = 50
    /\ dbDonations[2] = Donation("d2", <<"C", "y">>, <<"P", "o", "e">>, <<"c", "@", "x">>,
                                 20, <<"A", "n", "y">>, "pending")
    /\ \A i \in DOMAIN dbRegistrations : dbRegistrations[i].updated_at = 0

====
